---- MODULE Spec2Model ----
(***************************************************************************)
(* A model of ami (src/main.rs), a modal terminal text editor: the State   *)
(* struct, the four key maps, the event loop of main and every action      *)
(* closure.  Strings are modelled as the UTF-8 byte sequences Rust stores, *)
(* because every String operation of the program (len, insert, remove,     *)
(* split_off) works on byte offsets.  u16 cursor arithmetic keeps its      *)
(* width: an overflowing + or - panics when the build has overflow checks  *)
(* (debug profile) and wraps modulo 2^16 when it has not (release).        *)
(***************************************************************************)
EXTENDS Integers, Sequences, FiniteSets, TLC

VARIABLES
    state,            \* the State struct of main
    fault,            \* TRUE once a handler has panicked (the process is gone)
    overflow_checks   \* whether the build panics on integer overflow

vars == <<state, fault, overflow_checks>>

-----------------------------------------------------------------------------
(* Bounds of the exploration *)

MaxExtent == 5     \* most lines and bytes of the buffer, counted together
MaxCmdLen == 3     \* most bytes in a typed command
MaxCol == 3        \* cursor columns explored: 0..MaxCol and 2^16-MaxCol..2^16-1
U16 == 65536

\* The characters offered as typed text: 'q' (one byte) and U+00E9 (two bytes).
TypedChars == {113, 233}

\* The terminal sizes offered, <<width, height>>: two with room for the status
\* bar and the command line, and one of a single row.
Sizes == {<<80, 24>>, <<40, 24>>, <<80, 1>>}

-----------------------------------------------------------------------------
(* Rust primitives *)

\* char::encode_utf8, for code points below U+0800
Utf8(cp) ==
    IF cp < 128 THEN <<cp>> ELSE <<192 + (cp \div 64), 128 + (cp % 64)>>

\* a UTF-8 continuation byte (10xxxxxx)
IsContinuation(b) == b >= 128 /\ b < 192

\* str::is_char_boundary
is_char_boundary(str, i) ==
    \/ i = 0
    \/ i = Len(str)
    \/ i > 0 /\ i < Len(str) /\ ~IsContinuation(str[i + 1])

\* the byte offset one past the char that starts at byte offset i
CharEnd(str, i) ==
    LET ends == {j \in (i + 1)..Len(str) : is_char_boundary(str, j)}
    IN  CHOOSE j \in ends : \A k \in ends : j <= k

\* the byte offset at which the last char of a non-empty string starts
LastCharStart(str) ==
    LET starts == {j \in 0..(Len(str) - 1) : is_char_boundary(str, j)}
    IN  CHOOSE j \in starts : \A k \in starts : k <= j

\* usize as u16
as_u16(n) == n % U16

\* u16::saturating_sub(1)
saturating_sub(x) == IF x = 0 THEN 0 ELSE x - 1

Min(a, b) == IF a < b THEN a ELSE b

\* String::pop
pop(str) == IF str = <<>> THEN str ELSE SubSeq(str, 1, LastCharStart(str))

\* Vec::insert / String::insert at a 0-based offset that is in range
InsertAt(seq, i, elems) == SubSeq(seq, 1, i) \o elems \o SubSeq(seq, i + 1, Len(seq))

\* Vec::remove at a 0-based index that is in range
RemoveAt(seq, i) == SubSeq(seq, 1, i) \o SubSeq(seq, i + 2, Len(seq))

str_q == <<58, 113>>                       \* ":q"
str_colon == <<58>>                        \* ":"
UnknownCommand ==                          \* "Unknown command."
    <<85, 110, 107, 110, 111, 119, 110, 32, 99, 111, 109, 109, 97, 110, 100, 46>>

-----------------------------------------------------------------------------
(* Results of a handler: the state it leaves and whether it returned. *)

Ok(s) == [st |-> s, ok |-> TRUE]
Panic(s) == [st |-> s, ok |-> FALSE]

\* x + 1 on u16, applied to the state by Set when it does not panic
AddOverflows(x) == x + 1 >= U16
SubOverflows(x) == x = 0
WrapAdd(x) == (x + 1) % U16
WrapSub(x) == (x + U16 - 1) % U16

\* draw and draw_status_bar: nothing of the state changes; `height - 2`
\* overflows when the terminal has fewer than two rows.
draw(s) ==
    IF s.height < 2 /\ overflow_checks THEN Panic(s) ELSE Ok(s)

-----------------------------------------------------------------------------
(* Key events and the key maps *)

Key(kind, ch, mods) == [kind |-> kind, ch |-> ch, mods |-> mods]
Char(cp) == Key("Char", cp, "NONE")
Ctrl(cp) == Key("Char", cp, "CONTROL")
Backspace == Key("Backspace", 0, "NONE")
Esc == Key("Esc", 0, "NONE")
Enter == Key("Enter", 0, "NONE")
Tab == Key("Tab", 0, "NONE")

\* The key events offered to the editor: every key some map binds, the typed
\* characters with and without Control, and Tab, which no map binds.
KeyEvents ==
    {Char(58), Char(105), Char(97), Char(104), Char(108), Char(106), Char(107)}
    \cup {Ctrl(122), Ctrl(99), Backspace, Esc, Enter, Tab}
    \cup {Char(c) : c \in TypedChars} \cup {Ctrl(c) : c \in TypedChars}

global_map == (Ctrl(122) :> "kill")

\* Escape bound in Normal mode as it is in Command mode
normal_map_EscBound ==
    (Char(58) :> "normal_colon") @@ (Char(105) :> "normal_i") @@
    (Char(97) :> "normal_a") @@ (Char(104) :> "normal_h") @@
    (Char(108) :> "normal_l") @@ (Char(106) :> "normal_j") @@
    (Char(107) :> "normal_k") @@ (Esc :> "command_esc")

normal_map ==
    (Char(58) :> "normal_colon") @@ (Char(105) :> "normal_i") @@
    (Char(97) :> "normal_a") @@ (Char(104) :> "normal_h") @@
    (Char(108) :> "normal_l") @@ (Char(106) :> "normal_j") @@
    (Char(107) :> "normal_k")

command_map ==
    (Backspace :> "command_backspace") @@ (Ctrl(99) :> "command_ctrl_c") @@
    (Esc :> "command_esc") @@ (Enter :> "command_enter")

insert_map ==
    (Esc :> "insert_esc") @@ (Enter :> "insert_enter") @@
    (Backspace :> "insert_backspace")

\* the global map consulted last, after the map of the mode and the fallbacks
Resolve_GlobalLast(m, e) ==
    LET map == CASE m = "Normal" -> normal_map
                 [] m = "Command" -> command_map
                 [] m = "Insert" -> insert_map
    IN  IF e \in DOMAIN map THEN map[e]
        ELSE IF m = "Command" /\ e.kind = "Char" THEN "command_text"
        ELSE IF m = "Insert" /\ e.kind = "Char" THEN "insert_text"
        ELSE IF e \in DOMAIN global_map THEN global_map[e]
        ELSE "ignored"

\* Resolve with the Insert text fallback taken in every mode.
Resolve_TextAnyMode(m, e) ==
    IF e \in DOMAIN global_map THEN global_map[e]
    ELSE LET map == CASE m = "Normal" -> normal_map
                      [] m = "Command" -> command_map
                      [] m = "Insert" -> insert_map
         IN  IF e \in DOMAIN map THEN map[e]
             ELSE IF m = "Command" /\ e.kind = "Char" THEN "command_text"
             ELSE IF e.kind = "Char" THEN "insert_text"
             ELSE "ignored"

\* The lookup of main's `Event::Key` arm: the global map, then the map of the
\* mode, then the text fallbacks; "ignored" when the arm falls through.
Resolve(m, e) ==
    IF e \in DOMAIN global_map THEN global_map[e]
    ELSE LET map == CASE m = "Normal" -> normal_map
                      [] m = "Command" -> command_map
                      [] m = "Insert" -> insert_map
         IN  IF e \in DOMAIN map THEN map[e]
             ELSE IF m = "Command" /\ e.kind = "Char" THEN "command_text"
             ELSE IF m = "Insert" /\ e.kind = "Char" THEN "insert_text"
             ELSE "ignored"

Modes == {"Normal", "Command", "Insert"}

\* Text reaches the fallbacks only from TypedChars (the bound on the alphabet).
Offered ==
    [m \in Modes |->
        {e \in KeyEvents :
            Resolve(m, e) \in {"command_text", "insert_text"} => e.ch \in TypedChars}]

\* the handlers the offered keys reach in each mode
Reached == [m \in Modes |-> {Resolve(m, e) : e \in Offered[m]}]

\* the characters the offered keys hand to the text fallback `name`
TextOf(name) ==
    [m \in Modes |-> {e.ch : e \in {k \in Offered[m] : Resolve(m, k) = name}}]

CommandChars == TextOf("command_text")
InsertChars == TextOf("insert_text")

-----------------------------------------------------------------------------
(* The action closures, as functions from the state to a handler result *)

kill(s) == Ok([s EXCEPT !.running = FALSE])

normal_colon(s) ==
    draw([s EXCEPT !.mode = "Command", !.status_bar[1] = "COMMAND",
                   !.command = str_colon])

normal_i(s) ==
    draw([s EXCEPT !.mode = "Insert", !.status_bar[1] = "INSERT",
                   !.cursor_pos.insert[1] = saturating_sub(@)])

normal_a(s) ==
    LET s1 == [s EXCEPT !.mode = "Insert", !.status_bar[1] = "INSERT"]
        y == s1.cursor_pos.normal[2]
    IN  IF y >= Len(s1.buffer) THEN Panic(s1)
        ELSE LET length == as_u16(Len(s1.buffer[y + 1]))
             IN  IF SubOverflows(length) /\ overflow_checks THEN Panic(s1)
                 ELSE IF s1.cursor_pos.normal[1] # WrapSub(length)
                 THEN IF AddOverflows(s1.cursor_pos.insert[1]) /\ overflow_checks
                      THEN Panic(s1)
                      ELSE draw([s1 EXCEPT !.cursor_pos.insert[1] = WrapAdd(@)])
                 ELSE draw(s1)

normal_h(s) ==
    draw([s EXCEPT !.cursor_pos.normal[1] = saturating_sub(@),
                   !.cursor_pos.insert[1] = saturating_sub(@)])

normal_l(s) ==
    LET y == s.cursor_pos.normal[2]
    IN  IF y >= Len(s.buffer) THEN Panic(s)
        ELSE LET length == as_u16(Len(s.buffer[y + 1]))
             IN  IF SubOverflows(length) /\ overflow_checks THEN Panic(s)
                 ELSE IF s.cursor_pos.normal[1] < WrapSub(length)
                 THEN LET s1 == [s EXCEPT !.cursor_pos.normal[1] = WrapAdd(@)]
                      IN  IF AddOverflows(s1.cursor_pos.insert[1]) /\ overflow_checks
                          THEN Panic(s1)
                          ELSE draw([s1 EXCEPT !.cursor_pos.insert[1] = WrapAdd(@)])
                 ELSE draw(s)

\* j that re-clamps the column to the destination line
normal_j_ClampColumn(s) ==
    IF Len(s.buffer) = 0 /\ overflow_checks THEN Panic(s)
    ELSE LET rows == IF Len(s.buffer) = 0 THEN U16 - 1 ELSE as_u16(Len(s.buffer) - 1)
             row == s.cursor_pos.normal[2]
         IN  IF row < rows
             THEN draw([s EXCEPT !.cursor_pos.normal =
                           <<Min(@[1], Len(s.buffer[row + 2])), row + 1>>])
             ELSE draw(s)

normal_j(s) ==
    IF Len(s.buffer) = 0 /\ overflow_checks THEN Panic(s)
    ELSE LET rows == IF Len(s.buffer) = 0 THEN U16 - 1 ELSE as_u16(Len(s.buffer) - 1)
         IN  IF s.cursor_pos.normal[2] < rows
             THEN draw([s EXCEPT !.cursor_pos.normal[2] = @ + 1])
             ELSE draw(s)

normal_k(s) ==
    IF s.cursor_pos.normal[2] > 0
    THEN draw([s EXCEPT !.cursor_pos.normal[2] = @ - 1])
    ELSE draw(s)

\* the label left as it was: `state.status_bar[0] = ...` forgotten
command_to_normal_KeepLabel(s) ==
    draw([s EXCEPT !.mode = "Normal", !.command = <<>>,
                   !.cursor_pos.command[1] = 1])

command_to_normal(s) ==
    draw([s EXCEPT !.mode = "Normal", !.status_bar[1] = "NORMAL",
                   !.command = <<>>, !.cursor_pos.command[1] = 1])

\* Backspace that stays in Command mode when the command string empties
command_backspace_StayOnEmpty(s) ==
    draw([s EXCEPT !.command = pop(@),
                   !.cursor_pos.command[1] = saturating_sub(@)])

command_backspace(s) ==
    LET s1 == [s EXCEPT !.command = pop(@),
                        !.cursor_pos.command[1] = saturating_sub(@)]
    IN  IF s1.command = <<>>
        THEN draw([s1 EXCEPT !.mode = "Normal", !.status_bar[1] = "NORMAL",
                             !.cursor_pos.command[1] = 1])
        ELSE draw(s1)

\* the command matched by prefix: `starts_with(":q")` in place of `":q" =>`
command_enter_Prefix(s) ==
    IF Len(s.command) >= 2 /\ SubSeq(s.command, 1, 2) = str_q
    THEN draw([s EXCEPT !.running = FALSE])
    ELSE draw([s EXCEPT !.command = UnknownCommand, !.mode = "Normal",
                        !.status_bar[1] = "NORMAL",
                        !.cursor_pos.command[1] = 1])

command_enter(s) ==
    IF s.command = str_q
    THEN draw([s EXCEPT !.running = FALSE])
    ELSE draw([s EXCEPT !.command = UnknownCommand, !.mode = "Normal",
                        !.status_bar[1] = "NORMAL",
                        !.cursor_pos.command[1] = 1])

\* the text fallback of Command mode (main, `(Mode::Command, KeyCode::Char(x))`)
command_text(s, x) ==
    LET s1 == [s EXCEPT !.command = @ \o Utf8(x)]
    IN  IF AddOverflows(s1.cursor_pos.command[1]) /\ overflow_checks THEN Panic(s1)
        ELSE draw([s1 EXCEPT !.cursor_pos.command[1] = WrapAdd(@)])

insert_esc(s) ==
    command_to_normal(
        [s EXCEPT !.cursor_pos.normal[1] = saturating_sub(s.cursor_pos.insert[1])])

insert_enter(s) ==
    LET x == s.cursor_pos.insert[1]
        y == s.cursor_pos.insert[2]
    IN  IF y >= Len(s.buffer) THEN Panic(s)
        ELSE LET line == s.buffer[y + 1]
             IN  IF x > Len(line) \/ ~is_char_boundary(line, x) THEN Panic(s)
                 ELSE LET tail == SubSeq(line, x + 1, Len(line))
                          s1 == [s EXCEPT !.buffer =
                                    InsertAt([@ EXCEPT ![y + 1] = SubSeq(line, 1, x)],
                                             y + 1, <<tail>>)]
                      IN  IF AddOverflows(y) /\ overflow_checks THEN Panic(s1)
                          ELSE draw([s1 EXCEPT
                                       !.cursor_pos.normal = <<0, WrapAdd(y)>>,
                                       !.cursor_pos.insert = <<0, WrapAdd(y)>>])

\* Backspace with the insert column above 0 (`if x > 0`)
backspace_char(s) ==
    LET x == s.cursor_pos.insert[1]
        y == s.cursor_pos.insert[2]
        index == x - 1
    IN  IF y >= Len(s.buffer) THEN Panic(s)
        ELSE LET line == s.buffer[y + 1]
             IN  IF index < Len(line) /\ ~is_char_boundary(line, index) THEN Panic(s)
                 ELSE LET s1 == IF index < Len(line)
                                THEN [s EXCEPT !.buffer[y + 1] =
                                        SubSeq(line, 1, index)
                                        \o SubSeq(line, CharEnd(line, index) + 1, Len(line))]
                                ELSE s
                      IN  IF SubOverflows(s1.cursor_pos.normal[1]) /\ overflow_checks
                          THEN Panic(s1)
                          ELSE draw([s1 EXCEPT
                                       !.cursor_pos.normal[1] = WrapSub(@),
                                       !.cursor_pos.insert[1] = WrapSub(@)])

\* the merge that moves the insert cursor only: the assignment to
\* `cursor_pos.normal` dropped
backspace_merge_KeepNormal(s) ==
    LET y == s.cursor_pos.insert[2]
    IN  IF y = 0
        THEN IF overflow_checks \/ Len(s.buffer) = 0 THEN Panic(s)
             ELSE Panic([s EXCEPT !.buffer = Tail(@)])
        ELSE IF y >= Len(s.buffer) THEN Panic(s)
        ELSE LET prev_index == y - 1
                 line == s.buffer[y + 1]
                 removed == RemoveAt(s.buffer, y)
                 prev_length == as_u16(Len(removed[prev_index + 1]))
             IN  draw([s EXCEPT
                         !.buffer = [removed EXCEPT ![prev_index + 1] = @ \o line],
                         !.cursor_pos.insert = <<prev_length, as_u16(prev_index)>>])

\* the cursors set after the push: the merged length in place of prev_length
backspace_merge_LengthAfterPush(s) ==
    LET y == s.cursor_pos.insert[2]
    IN  IF y = 0 \/ y >= Len(s.buffer) THEN Panic(s)
        ELSE LET removed == RemoveAt(s.buffer, y)
                 merged == removed[y] \o s.buffer[y + 1]
             IN  draw([s EXCEPT
                         !.buffer = [removed EXCEPT ![y] = merged],
                         !.cursor_pos.insert = <<as_u16(Len(merged)), as_u16(y - 1)>>,
                         !.cursor_pos.normal = <<as_u16(Len(merged)), as_u16(y - 1)>>])

\* Backspace at column 0 below the first line (`else if y > 0`).  With y = 0,
\* which the guard of insert_backspace excludes, `ys - 1` overflows: a panic
\* with overflow checks, and without them the removal of line 0 followed by
\* an index far outside the buffer.
backspace_merge(s) ==
    LET y == s.cursor_pos.insert[2]
    IN  IF y = 0
        THEN IF overflow_checks \/ Len(s.buffer) = 0 THEN Panic(s)
             ELSE Panic([s EXCEPT !.buffer = Tail(@)])
        ELSE IF y >= Len(s.buffer) THEN Panic(s)
        ELSE LET prev_index == y - 1
                 line == s.buffer[y + 1]
                 removed == RemoveAt(s.buffer, y)
                 prev_length == as_u16(Len(removed[prev_index + 1]))
             IN  draw([s EXCEPT
                         !.buffer = [removed EXCEPT ![prev_index + 1] = @ \o line],
                         !.cursor_pos.insert = <<prev_length, as_u16(prev_index)>>,
                         !.cursor_pos.normal = <<prev_length, as_u16(prev_index)>>])

\* the row guard of the merge dropped: `else` in place of `else if y > 0`
insert_backspace_NoRowGuard(s) ==
    IF s.cursor_pos.insert[1] > 0 THEN backspace_char(s) ELSE backspace_merge(s)

insert_backspace(s) ==
    IF s.cursor_pos.insert[1] > 0 THEN backspace_char(s)
    ELSE IF s.cursor_pos.insert[2] > 0 THEN backspace_merge(s)
    ELSE draw(s)

\* the text fallback of Insert mode (main, `(Mode::Insert, KeyCode::Char(x))`)
insert_text(s, x) ==
    LET col == s.cursor_pos.insert[1]
        row == s.cursor_pos.insert[2]
    IN  IF row >= Len(s.buffer) THEN Panic(s)
        ELSE LET line == s.buffer[row + 1]
                 insert_index == Min(col, Len(line))
             IN  IF ~is_char_boundary(line, insert_index) THEN Panic(s)
                 ELSE LET s1 == [s EXCEPT !.buffer[row + 1] =
                                    InsertAt(line, insert_index, Utf8(x))]
                      IN  IF AddOverflows(s1.cursor_pos.insert[1]) /\ overflow_checks
                          THEN Panic(s1)
                          ELSE LET s2 == [s1 EXCEPT !.cursor_pos.insert[1] = WrapAdd(@)]
                               IN  IF AddOverflows(s2.cursor_pos.normal[1]) /\ overflow_checks
                                   THEN Panic(s2)
                                   ELSE draw([s2 EXCEPT !.cursor_pos.normal[1] = WrapAdd(@)])

\* main, `Event::Resize(w, h)`
resize(s, w, h) == draw([s EXCEPT !.width = w, !.height = h])

-----------------------------------------------------------------------------
(* The event loop of main *)

\* `State { .. }` as main builds it for a terminal of w columns and h rows
InitState(w, h) ==
    [running |-> TRUE, width |-> w, height |-> h, mode |-> "Normal",
     cursor_pos |-> [normal |-> <<0, 0>>, command |-> <<1, h - 1>>,
                     insert |-> <<0, 0>>],
     status_bar |-> <<"NORMAL">>, command |-> <<>>, buffer |-> <<<<>>>>]

\* Construction and the initial draw
Init ==
    /\ overflow_checks \in BOOLEAN
    /\ \E sz \in Sizes : state = InitState(sz[1], sz[2])
    /\ fault = ~draw(state).ok

InWindow(c) == c <= MaxCol \/ c >= U16 - MaxCol

\* the bytes of all lines together
RECURSIVE TotalBytes(_)
TotalBytes(buffer) ==
    IF buffer = <<>> THEN 0 ELSE Len(Head(buffer)) + TotalBytes(Tail(buffer))

\* The part of the state space explored
InBounds(s) ==
    /\ Len(s.buffer) + TotalBytes(s.buffer) <= MaxExtent
    /\ Len(s.command) <= MaxCmdLen \/ s.command = UnknownCommand
    /\ InWindow(s.cursor_pos.normal[1])
    /\ InWindow(s.cursor_pos.insert[1])

\* `loop` in place of `while state.running`: the flag is never looked at
Live_IgnoreRunning == ~fault

\* `while state.running`, in a process that has not panicked
Live == state.running /\ ~fault

\* `read()` yields a key event that the lookup resolves to the handler `name`
KeyPressed(name) == name \in Reached[state.mode]

\* The handler's result becomes the state; a panic ends the process.
Step(r) ==
    /\ InBounds(r.st)
    /\ state' = r.st
    /\ fault' = ~r.ok
    /\ UNCHANGED overflow_checks

Kill == Live /\ KeyPressed("kill") /\ Step(kill(state))

NormalColon == Live /\ KeyPressed("normal_colon") /\ Step(normal_colon(state))

NormalI == Live /\ KeyPressed("normal_i") /\ Step(normal_i(state))

NormalA == Live /\ KeyPressed("normal_a") /\ Step(normal_a(state))

NormalH == Live /\ KeyPressed("normal_h") /\ Step(normal_h(state))

NormalL == Live /\ KeyPressed("normal_l") /\ Step(normal_l(state))

NormalJ == Live /\ KeyPressed("normal_j") /\ Step(normal_j(state))

NormalK == Live /\ KeyPressed("normal_k") /\ Step(normal_k(state))

CommandBackspace ==
    Live /\ KeyPressed("command_backspace") /\ Step(command_backspace(state))

CommandCtrlC == Live /\ KeyPressed("command_ctrl_c") /\ Step(command_to_normal(state))

CommandEsc == Live /\ KeyPressed("command_esc") /\ Step(command_to_normal(state))

CommandEnter == Live /\ KeyPressed("command_enter") /\ Step(command_enter(state))

CommandText ==
    Live /\ \E x \in CommandChars[state.mode] : Step(command_text(state, x))

InsertEsc == Live /\ KeyPressed("insert_esc") /\ Step(insert_esc(state))

InsertEnter == Live /\ KeyPressed("insert_enter") /\ Step(insert_enter(state))

InsertBackspace ==
    Live /\ KeyPressed("insert_backspace") /\ Step(insert_backspace(state))

InsertText ==
    Live /\ \E x \in InsertChars[state.mode] : Step(insert_text(state, x))

\* a key event that no map binds and no fallback takes
Ignored == Live /\ KeyPressed("ignored") /\ UNCHANGED vars

Resize == Live /\ \E sz \in Sizes : Step(resize(state, sz[1], sz[2]))

\* `_ => {}`: any event that is neither a key nor a resize
OtherEvent == Live /\ UNCHANGED vars

Next ==
    \/ Kill
    \/ NormalColon \/ NormalI \/ NormalA \/ NormalH \/ NormalL \/ NormalJ \/ NormalK
    \/ CommandBackspace \/ CommandCtrlC \/ CommandEsc \/ CommandEnter \/ CommandText
    \/ InsertEsc \/ InsertEnter \/ InsertBackspace \/ InsertText
    \/ Ignored \/ Resize \/ OtherEvent

Spec == Init /\ [][Next]_vars

-----------------------------------------------------------------------------
(* Claims *)

\* a step of the loop that handles a key event
KeyStep ==
    \/ Kill
    \/ NormalColon \/ NormalI \/ NormalA \/ NormalH \/ NormalL \/ NormalJ \/ NormalK
    \/ CommandBackspace \/ CommandCtrlC \/ CommandEsc \/ CommandEnter \/ CommandText
    \/ InsertEsc \/ InsertEnter \/ InsertBackspace \/ InsertText
    \/ Ignored

\* the cursor c = <<column, row>> lies on a line of the buffer, at most one
\* past the line's last byte
OnBuffer(c, buffer) ==
    /\ 0 <= c[2] /\ c[2] < Len(buffer)
    /\ 0 <= c[1] /\ c[1] <= Len(buffer[c[2] + 1])

\* C1: in every state the editor reaches while it runs, the normal cursor and
\* the insert cursor have a row inside the buffer and a column between 0 and
\* the length of the line at that row.
C1_CursorsOnBuffer ==
    ~fault =>
        /\ OnBuffer(state.cursor_pos.normal, state.buffer)
        /\ OnBuffer(state.cursor_pos.insert, state.buffer)

\* C2: no key event makes its handler panic: no index outside the buffer, no
\* split or removal beyond a line, no unsigned subtraction below zero.
C2_NoKeyFaults == [][KeyStep => ~fault']_vars

\* C3: the buffer has at least one line in every reachable state.
C3_BufferNonEmpty == Len(state.buffer) >= 1

\* C3 witness: Insert mode on a one-line buffer whose line was put together
\* by typing (Enter, Backspace and characters have acted).
C3_Witness ==
    /\ state.mode = "Insert"
    /\ state.buffer = <<<<113, 113>>>>
    /\ state.cursor_pos.insert = <<1, 0>>
    /\ ~fault

ModeLabel(m) ==
    CASE m = "Normal" -> "NORMAL"
      [] m = "Insert" -> "INSERT"
      [] m = "Command" -> "COMMAND"

\* C4: the status label is the name of the current mode in every reachable
\* state, so no step changes the mode without changing the label.
C4_LabelIsMode ==
    /\ Len(state.status_bar) = 1
    /\ state.status_bar[1] = ModeLabel(state.mode)

\* C4 witness: the editor has gone through Command and Insert mode and is
\* back in Normal mode after a rejected command, with text in the buffer.
C4_Witness ==
    /\ state.mode = "Normal"
    /\ state.command = UnknownCommand
    /\ state.buffer # <<<<>>>>
    /\ ~fault

MaxWord == 2       \* longest word typed in the round trip and the scenario

\* the words of at most MaxWord typed characters
Words == UNION {[1..n -> TypedChars] : n \in 0..MaxWord}

\* the key events of a word typed in Insert mode, handled one after another
RECURSIVE TypeWord(_, _)
TypeWord(r, w) ==
    IF w = <<>> \/ ~r.ok THEN r
    ELSE TypeWord(insert_text(r.st, Head(w)), Tail(w))

\* Backspace pressed n times in Insert mode
RECURSIVE PressBackspace(_, _)
PressBackspace(r, n) ==
    IF n = 0 \/ ~r.ok THEN r
    ELSE PressBackspace(insert_backspace(r.st), n - 1)

\* C5: from any reachable Insert-mode state, typing n characters and then
\* pressing Backspace n times gives back the buffer and the insert column.
C5_RoundTrip ==
    (Live /\ state.mode = "Insert") =>
        \A w \in Words :
            LET r == PressBackspace(TypeWord(Ok(state), w), Len(w))
            IN  /\ r.ok
                /\ r.st.buffer = state.buffer
                /\ r.st.cursor_pos.insert[1] = state.cursor_pos.insert[1]

\* the bytes of a word
RECURSIVE Utf8Word(_)
Utf8Word(w) == IF w = <<>> THEN <<>> ELSE Utf8(Head(w)) \o Utf8Word(Tail(w))

Max(a, b) == IF a > b THEN a ELSE b

\* C6: Escape in Insert mode switches to Normal mode, leaves the buffer as it
\* is and puts the normal column at max(insert column - 1, 0); and from the
\* initial state, i, a non-empty word w and Escape give the buffer [w], Normal
\* mode and the normal column length(w) - 1.
C6_EscapeFromInsert ==
    /\ (Live /\ state.mode = "Insert") =>
          LET r == insert_esc(state)
          IN  /\ r.ok
              /\ r.st.mode = "Normal"
              /\ r.st.buffer = state.buffer
              /\ r.st.cursor_pos.normal[1] = Max(state.cursor_pos.insert[1] - 1, 0)
    /\ (Live /\ state = InitState(state.width, state.height)) =>
          \A w \in Words \ {<<>>} :
              LET typed == TypeWord(normal_i(state), w)
                  r == IF typed.ok THEN insert_esc(typed.st) ELSE typed
              IN  /\ r.ok
                  /\ r.st.buffer = <<Utf8Word(w)>>
                  /\ r.st.mode = "Normal"
                  /\ r.st.cursor_pos.normal[1] = Len(w) - 1

\* C7: in every reachable Insert-mode state Enter splits the line of the
\* insert cursor at the insert column: the text before the column stays, the
\* text from the column on becomes the next line, the other lines keep their
\* content and order, and both cursors become (0, old insert row + 1).
C7_EnterSplits ==
    [][InsertEnter =>
        LET x == state.cursor_pos.insert[1]
            y == state.cursor_pos.insert[2]
            old == state.buffer
            new == state'.buffer
        IN  /\ ~fault'
            /\ y < Len(old) /\ x <= Len(old[y + 1])
            /\ Len(new) = Len(old) + 1
            /\ new[y + 1] = SubSeq(old[y + 1], 1, x)
            /\ new[y + 2] = SubSeq(old[y + 1], x + 1, Len(old[y + 1]))
            /\ \A i \in 1..Len(old) : i < y + 1 => new[i] = old[i]
            /\ \A i \in 1..Len(old) : i > y + 1 => new[i + 1] = old[i]
            /\ state'.cursor_pos.insert = <<0, y + 1>>
            /\ state'.cursor_pos.normal = <<0, y + 1>>]_vars

C9_BackspaceDeletes ==
    [][(InsertBackspace /\ state.cursor_pos.insert[1] > 0) =>
        LET x == state.cursor_pos.insert[1]
            y == state.cursor_pos.insert[2]
            old == state.buffer
            new == state'.buffer
        IN  /\ ~fault'
            /\ y < Len(old) /\ x <= Len(old[y + 1])
            /\ new = [old EXCEPT ![y + 1] =
                        SubSeq(old[y + 1], 1, x - 1)
                        \o SubSeq(old[y + 1], x + 1, Len(old[y + 1]))]
            /\ state'.cursor_pos.insert = <<x - 1, y>>
            /\ state'.cursor_pos.normal[1] = state.cursor_pos.normal[1] - 1]_vars

\* C10: Enter in Command mode takes the command verbatim: ":q" clears the
\* running flag; any other string leaves "Unknown command." as the command
\* text, returns to Normal mode with the command column at 1, and leaves the
\* running flag and the buffer as they were.
C10_CommandEnter ==
    [][CommandEnter =>
        IF state.command = str_q
        THEN ~state'.running
        ELSE /\ state'.command = UnknownCommand
             /\ state'.mode = "Normal"
             /\ state'.cursor_pos.command[1] = 1
             /\ state'.running = state.running
             /\ state'.buffer = state.buffer]_vars

\* C10 witness: a command other than ":q" was rejected with text in the
\* buffer, and the editor is in Normal mode and still runs.
C10_Witness ==
    /\ state.command = UnknownCommand
    /\ state.mode = "Normal"
    /\ state.running
    /\ state.cursor_pos.command[1] = 1
    /\ state.buffer = <<<<113>>>>
    /\ ~fault

\* C11: in Normal mode l advances the normal column only while it is below
\* line length - 1; at the last column of the line, column 0 of an empty or
\* one-character line included, the column stays, so l never moves the normal
\* cursor past the last character.
C11_LStopsAtLastColumn ==
    [][NormalL =>
        LET col == state.cursor_pos.normal[1]
            row == state.cursor_pos.normal[2]
        IN  /\ ~fault'
            /\ row < Len(state.buffer)
            /\ state'.cursor_pos.normal[1] =
                 IF col < Len(state.buffer[row + 1]) - 1 THEN col + 1 ELSE col]_vars

\* main's `Event::Key(event)` arm as a function: the handler the lookup
\* resolves the key to, applied to the state
on_key(s, e) ==
    LET name == Resolve(s.mode, e)
    IN  CASE name = "kill" -> kill(s)
          [] name = "normal_colon" -> normal_colon(s)
          [] name = "normal_i" -> normal_i(s)
          [] name = "normal_a" -> normal_a(s)
          [] name = "normal_h" -> normal_h(s)
          [] name = "normal_l" -> normal_l(s)
          [] name = "normal_j" -> normal_j(s)
          [] name = "normal_k" -> normal_k(s)
          [] name = "command_backspace" -> command_backspace(s)
          [] name = "command_ctrl_c" -> command_to_normal(s)
          [] name = "command_esc" -> command_to_normal(s)
          [] name = "command_enter" -> command_enter(s)
          [] name = "command_text" -> command_text(s, e.ch)
          [] name = "insert_esc" -> insert_esc(s)
          [] name = "insert_enter" -> insert_enter(s)
          [] name = "insert_backspace" -> insert_backspace(s)
          [] name = "insert_text" -> insert_text(s, e.ch)
          [] OTHER -> Ok(s)

\* Escape pressed n times
RECURSIVE PressEscape(_, _)
PressEscape(r, n) ==
    IF n = 0 \/ ~r.ok THEN r ELSE PressEscape(on_key(r.st, Esc), n - 1)

\* the keys that neither the global map nor the normal-mode map binds
UnboundInNormal ==
    {e \in KeyEvents : e \notin DOMAIN global_map /\ e \notin DOMAIN normal_map}

\* C12: in Normal mode a key that neither the global map nor the normal-mode
\* map binds, Escape in particular, leaves the whole state as it is, so any
\* number of Escape presses in Normal mode changes nothing.
C12_UnboundKeysIgnored ==
    (Live /\ state.mode = "Normal") =>
        /\ \A e \in UnboundInNormal : on_key(state, e) = Ok(state)
        /\ \A n \in 0..MaxWord : PressEscape(Ok(state), n) = Ok(state)

\* C12 witness: Normal mode with the message of a rejected command on the
\* command line, text in a two-line buffer and the normal cursor moved up:
\* state that a key handled by mistake would change.
C12_Witness ==
    /\ state.mode = "Normal"
    /\ state.running
    /\ state.command = UnknownCommand
    /\ Len(state.buffer) = 2
    /\ state.cursor_pos.normal[2] = 0
    /\ state.cursor_pos.insert[2] = 1
    /\ ~fault

\* the kill key of global_map
KillKey == Ctrl(122)

\* C13: the global kill key is resolved before the map of the mode in Normal,
\* Command and Insert mode alike: it clears the running flag, no handler of
\* the mode and no text fallback runs, and mode, buffer, cursors and command
\* text stay as they are.
C13_KillKeyFirst ==
    Live =>
        /\ Resolve(state.mode, KillKey) = "kill"
        /\ on_key(state, KillKey) = Ok([state EXCEPT !.running = FALSE])

\* C13 witness: the editor was stopped in Insert mode, which only the kill
\* key does, with the typed text still in the buffer.
C13_Witness ==
    /\ ~state.running
    /\ state.mode = "Insert"
    /\ state.buffer = <<<<113, 113>>>>
    /\ state.cursor_pos.insert = <<2, 0>>
    /\ ~fault

\* a step that ends the loop: Enter on ":q" in Command mode, or the kill key
Terminate == Kill \/ (CommandEnter /\ state.command = str_q)

\* C14: the running flag starts true, is cleared only by a terminate action
\* and is never set again; once it is clear no event is handled, so the state
\* in which it was cleared is final.
C14_RunningFlag ==
    /\ state.running
    /\ [][/\ state.running
          /\ ~state'.running => Terminate]_vars

\* C14 witness: the loop was ended by Enter on ":q", with text in the buffer.
C14_Witness ==
    /\ ~state.running
    /\ state.mode = "Command"
    /\ state.command = str_q
    /\ state.buffer = <<<<113>>>>
    /\ ~fault

\* C15: i in Normal mode switches to Insert mode with the insert cursor before
\* the character under the normal cursor: after the step the insert cursor has
\* the row and the column of the normal cursor.
C15_InsertAtNormalCursor ==
    [][NormalI =>
        /\ ~fault'
        /\ state'.mode = "Insert"
        /\ state'.cursor_pos.insert = state.cursor_pos.normal]_vars

\* C16: a in Normal mode switches to Insert mode with the insert cursor after
\* the character under the normal cursor (normal column + 1 on the normal
\* cursor's row), unless the normal cursor is at the last column of its line,
\* where the insert column is not advanced; the insert column never exceeds
\* the length of the line.
C16_AppendAfterNormalCursor ==
    [][NormalA =>
        LET col == state.cursor_pos.normal[1]
            row == state.cursor_pos.normal[2]
        IN  /\ ~fault'
            /\ state'.mode = "Insert"
            /\ row < Len(state.buffer)
            /\ state'.cursor_pos.insert[2] = row
            /\ state'.cursor_pos.insert[1] <= Len(state.buffer[row + 1])
            /\ IF col = Max(Len(state.buffer[row + 1]) - 1, 0)
               THEN state'.cursor_pos.insert[1] = state.cursor_pos.insert[1]
               ELSE state'.cursor_pos.insert[1] = col + 1]_vars


\* the steps that the Insert-mode handlers with a buffer write take
InsertEdit == InsertEnter \/ InsertBackspace \/ InsertText

\* C17: the buffer is changed only by Insert-mode actions: key events handled
\* in Normal or Command mode, resize events and the kill key leave the
\* sequence of buffer lines as it was.
C17_BufferOnlyInInsert ==
    [][state'.buffer # state.buffer =>
        /\ state.mode = "Insert"
        /\ InsertEdit
        /\ ~Kill /\ ~Resize]_vars

C17_Witness ==
    /\ state.mode = "Command"
    /\ state.running
    /\ state.width = 40
    /\ state.command = str_q
    /\ state.buffer = <<<<113>>, <<113>>>>
    /\ ~fault


\* C18: whenever the mode is Command the command string is non-empty and
\* starts with ':'; outside Command mode (where a Backspace that empties the
\* string leaves the editor) the command cursor column is 1.
C18_CommandPrefix ==
    /\ state.mode = "Command" =>
          /\ state.command # <<>>
          /\ state.command[1] = 58
    /\ state.command = <<>> =>
          /\ state.mode # "Command"
          /\ state.cursor_pos.command[1] = 1

C18_Witness ==
    /\ state.mode = "Command"
    /\ state.command = <<58, 195, 169>>
    /\ state.cursor_pos.command[1] = 2
    /\ Len(state.buffer) = 2
    /\ ~fault


\* what j and k leave alone: the normal column, the insert cursor, the command
\* cursor, the buffer and the mode
RowMoveFrame ==
    /\ state'.cursor_pos.normal[1] = state.cursor_pos.normal[1]
    /\ state'.cursor_pos.insert = state.cursor_pos.insert
    /\ state'.cursor_pos.command = state.cursor_pos.command
    /\ state'.buffer = state.buffer
    /\ state'.mode = state.mode

\* C19: in Normal mode j increases the normal row by one unless it is the last
\* buffer row and k decreases it by one unless it is 0; both leave the normal
\* column, the insert cursor, the command cursor, the buffer and the mode
\* unchanged, so the column is not re-clamped to the destination line.
C19_RowMoves ==
    [][LET row == state.cursor_pos.normal[2]
       IN  /\ NormalJ =>
                /\ state'.cursor_pos.normal[2] =
                     IF row = Len(state.buffer) - 1 THEN row ELSE row + 1
                /\ RowMoveFrame
           /\ NormalK =>
                /\ state'.cursor_pos.normal[2] = IF row = 0 THEN 0 ELSE row - 1
                /\ RowMoveFrame]_vars

C19_Witness ==
    /\ state.mode = "Normal"
    /\ state.buffer = <<<<>>, <<113, 113>>>>
    /\ state.cursor_pos.normal = <<1, 0>>
    /\ state.cursor_pos.insert[2] = 1
    /\ ~fault


\* C20: in every reachable state the row of the normal cursor and the row of
\* the insert cursor are valid indices into the buffer (0 <= row < line
\* count); the two rows need not be equal.
C20_RowsInBuffer ==
    /\ 0 <= state.cursor_pos.normal[2]
    /\ state.cursor_pos.normal[2] < Len(state.buffer)
    /\ 0 <= state.cursor_pos.insert[2]
    /\ state.cursor_pos.insert[2] < Len(state.buffer)

C20_Witness ==
    /\ state.mode = "Normal"
    /\ state.buffer = <<<<113>>, <<113>>>>
    /\ state.cursor_pos.normal[2] = 0
    /\ state.cursor_pos.insert[2] = 1
    /\ ~fault

====
